---- MODULE Spec2Model ----
(***************************************************************************)
(* Linker CLI: the session state (state.py), the page-data cache store and *)
(* the cache validity checker (commands/core.py), and the commands that    *)
(* drive them: set, sidebar, load and check.                               *)
(*                                                                         *)
(* Representation.  A URL or a file path is a sequence of string tokens    *)
(* whose concatenation is the Python string (<<"http://", "a.edu", "/p">>  *)
(* is "http://a.edu/p"); the empty sequence is the empty string.  Other    *)
(* session values are TLA+ strings.  A Python dict is a function from its  *)
(* keys.  A Python sequence item is [py |-> "tuple" | "list", v |-> ...];  *)
(* a JSON array is [js |-> "array", v |-> ...].  A JSON scalar whose type  *)
(* matters is [t |-> "str" | "bool" | "null", v |-> ...].                  *)
(*                                                                         *)
(* The cache directory holds only what the session writes; writing a cache *)
(* file succeeds (DOMAIN and ROW values are drawn from names that are      *)
(* valid inside a file name).  The DSM workbook is loaded at start-up.     *)
(***************************************************************************)
EXTENDS Integers, Sequences, FiniteSets, TLC

VARIABLES
    variables,          \* CLIState.variables
    current_page_data,  \* CLIState.current_page_data
    files,              \* the files of CACHE_DIR: path -> content
    last,               \* the command that ran last, what it saw and did
    hist,               \* what has been kept unchanged since the last saved scrape
    scrapes,            \* number of scrapes issued so far
    excel_data,         \* CLIState.excel_data: worksheet name -> parsed sheet
    spinner             \* the Spinner of the running cmd_check and its two threads

vars == <<variables, current_page_data, files, last, hist, scrapes, excel_data, spinner>>

(***************************************************************************)
(* Bounds                                                                  *)
(***************************************************************************)
MaxScrapes == 1

(***************************************************************************)
(* Python values                                                           *)
(***************************************************************************)
None == [none |-> TRUE]
EmptyDict == [k \in {} |-> TRUE]
EmptyStr == << >>

Tuple(s) == [py |-> "tuple", v |-> s]
List(s) == [py |-> "list", v |-> s]
Str(s) == [t |-> "str", v |-> s]
Bool(b) == [t |-> "bool", v |-> IF b THEN "True" ELSE "False"]
Null == [t |-> "null", v |-> ""]

\* bool(x) of a dict or None
DictTruthy(d) == d # None /\ DOMAIN d # {}

\* bool(x) of a JSON scalar
ScalarTruthy(x) ==
    CASE x.t = "str" -> x.v # ""
      [] x.t = "bool" -> x.v = "True"
      [] OTHER -> FALSE

\* str(x).lower() of a JSON scalar
StrLower(x) ==
    CASE x.t = "bool" -> (IF x.v = "True" THEN "true" ELSE "false")
      [] x.t = "null" -> "none"
      [] OTHER -> x.v

\* dict.get(k, dflt)
Get(d, k, dflt) == IF k \in DOMAIN d THEN d[k] ELSE dflt

(***************************************************************************)
(* utils/core.py                                                           *)
(***************************************************************************)
\* str.lower(), token by token
LowerTok(tok) ==
    CASE tok = "HTTP://" -> "http://"
      [] tok = "A.EDU" -> "a.edu"
      [] OTHER -> tok

LowerStr(str) == [i \in DOMAIN str |-> LowerTok(str[i])]

Schemes == {"http://", "https://"}

\* urlparse(url).scheme is non-empty; urlparse reads the scheme in any case
HasScheme(url) == url # EmptyStr /\ LowerTok(Head(url)) \in Schemes

\* the tokens that are a #fragment
IsFragment(tok) == tok \in {"#s"}

\* the URL up to its fragment
DropFragment(url) ==
    LET cut == {i \in DOMAIN url : IsFragment(url[i])}
    IN  IF cut = {} THEN url
        ELSE SubSeq(url, 1, (CHOOSE i \in cut : \A j \in cut : i <= j) - 1)

\* str.rstrip("/")
RECURSIVE RStripSlash(_)
RStripSlash(url) ==
    IF url # EmptyStr /\ url[Len(url)] = "/"
    THEN RStripSlash(SubSeq(url, 1, Len(url) - 1))
    ELSE url

\* mutant: normalize_url also drops the fragment and the trailing slash
normalize_url_strips(url) ==
    RStripSlash(DropFragment(IF HasScheme(url) THEN url ELSE <<"http://">> \o url))

normalize_url(url) == IF HasScheme(url) THEN url ELSE <<"http://">> \o url

(***************************************************************************)
(* data/dsm.py: the compare-normalization of lookup_link_in_dsm            *)
(***************************************************************************)
\* f"{scheme}://{netloc}{path}" [+ "?query"], then rstrip("/"); urlparse gives
\* the scheme in lower case; without a
\* scheme urlparse leaves scheme and netloc empty and the rest is the path
\* mutant: the fragment stays in the pattern
CompareNormalize_keeps_fragment(url) ==
    RStripSlash(IF HasScheme(url)
                THEN <<LowerTok(Head(url))>> \o Tail(url)
                ELSE <<"://">> \o url)

CompareNormalize(url) ==
    RStripSlash(IF HasScheme(url)
                THEN <<LowerTok(Head(url))>> \o Tail(DropFragment(url))
                ELSE <<"://">> \o DropFragment(url))

(***************************************************************************)
(* json.dump / json.load                                                   *)
(***************************************************************************)
\* json.dump of page data: every sequence, tuple or list, is written as an array
JsonDumpData(d) ==
    [k \in DOMAIN d |->
        IF k = "links"
        THEN [i \in DOMAIN d[k] |-> [js |-> "array", v |-> d[k][i].v]]
        ELSE d[k]]

\* json.load of page data: every array is read as a list
JsonLoadData(j) ==
    [k \in DOMAIN j |->
        IF k = "links"
        THEN [i \in DOMAIN j[k] |-> List(j[k][i].v)]
        ELSE j[k]]

(***************************************************************************)
(* state.py                                                                *)
(***************************************************************************)
VariableNames ==
    {"URL", "DOMAIN", "ROW", "SELECTOR", "INCLUDE_SIDEBAR", "DSM_FILE",
     "CACHE_FILE", "PROPOSED_PATH", "DEBUG"}

InitVariables ==
    [n \in VariableNames |->
        CASE n \in {"URL", "CACHE_FILE", "PROPOSED_PATH"} -> EmptyStr
          [] n = "SELECTOR" -> "#main"
          [] n = "INCLUDE_SIDEBAR" -> "false"
          [] n = "DEBUG" -> "true"
          [] OTHER -> ""]

\* CLIState.set_variable: the variables after the call
set_variable(v, name, value) ==
    IF name \in DOMAIN v THEN [v EXCEPT ![name] = value] ELSE v

\* CLIState.set_variable: the value it returns
set_variable_ok(v, name) == name \in DOMAIN v

\* CLIState.get_variable
get_variable(v, name) == IF name \in DOMAIN v THEN v[name] ELSE ""

\* CLIState.validate_required_vars(["URL", "SELECTOR"]): nothing missing, nothing invalid
RequiredVarsOk(v) ==
    /\ v["URL"] # EmptyStr
    /\ v["SELECTOR"] # ""
    /\ Head(v["URL"]) \in Schemes

(***************************************************************************)
(* commands/core.py: the cache store                                       *)
(***************************************************************************)
CACHE_DIR == <<"migration_cache/">>

\* re.sub(r"[^\w\-_.]", "_", token)
SanitizeToken(tok) ==
    CASE tok = "http://" -> "http___"
      [] tok = "https://" -> "https___"
      [] tok = "/p" -> "_p"
      [] tok = "/q" -> "_q"
      [] tok = "/" -> "_"
      [] tok = "#s" -> "_s"
      [] tok = "/seg36" -> "_seg36"
      [] tok = "/tail" -> "_tail"
      [] OTHER -> tok

Sanitize(url) == [i \in DOMAIN url |-> SanitizeToken(url[i])]

\* len(token); "/seg36" stands for a path segment of 36 characters
TokenLen(tok) ==
    CASE tok \in {"http://", "http___"} -> 7
      [] tok \in {"https://", "https___"} -> 8
      [] tok \in {"a.edu", "b.edu", "/tail", "_tail"} -> 5
      [] tok \in {"/seg36", "_seg36"} -> 36
      [] tok \in {"/", "_"} -> 1
      [] OTHER -> 2

\* s[:n]; the strings of the model are cut between two tokens
RECURSIVE Truncate(_, _)
Truncate(str, n) ==
    IF str = EmptyStr \/ TokenLen(Head(str)) > n
    THEN EmptyStr
    ELSE <<Head(str)>> \o Truncate(Tail(str), n - TokenLen(Head(str)))

\* mutant: the fallback file name keeps the whole sanitized URL
CacheFilename_untruncated(domain, row, url) ==
    IF domain # "" /\ row # ""
    THEN <<"page_check_", domain, "-", row, ".json">>
    ELSE <<"page_check_">> \o Sanitize(url) \o <<".json">>

\* the file name _cache_page_data chooses
CacheFilename(domain, row, url) ==
    IF domain # "" /\ row # ""
    THEN <<"page_check_", domain, "-", row, ".json">>
    ELSE <<"page_check_">> \o Truncate(Sanitize(url), 50) \o <<".json">>

CachePath(filename) == CACHE_DIR \o filename

\* mutant: the metadata of an earlier draft, which recorded no sidebar flag
CacheData_no_sidebar(v, url, data) ==
    [metadata |->
        [url |-> normalize_url(url),
         domain |-> get_variable(v, "DOMAIN"),
         row |-> get_variable(v, "ROW"),
         kanban_id |-> get_variable(v, "KANBAN_ID"),
         selector |-> get_variable(v, "SELECTOR"),
         include_sidebar |-> Str("false"),
         timestamp |-> "now",
         cache_filename |->
            CacheFilename(get_variable(v, "DOMAIN"), get_variable(v, "ROW"),
                          normalize_url(url))],
     page_data |-> data]

\* the document _cache_page_data builds
CacheData(v, url, data) ==
    [metadata |->
        [url |-> normalize_url(url),
         domain |-> get_variable(v, "DOMAIN"),
         row |-> get_variable(v, "ROW"),
         kanban_id |-> get_variable(v, "KANBAN_ID"),
         selector |-> get_variable(v, "SELECTOR"),
         include_sidebar |-> Str(get_variable(v, "INCLUDE_SIDEBAR")),
         timestamp |-> "now",
         cache_filename |->
            CacheFilename(get_variable(v, "DOMAIN"), get_variable(v, "ROW"),
                          normalize_url(url))],
     page_data |-> data]

\* the file _cache_page_data writes
JsonFile(doc) == [kind |-> "json", doc |-> doc]

WriteFile(fs, path, content) ==
    [p \in DOMAIN fs \cup {path} |-> IF p = path THEN content ELSE fs[p]]

\* _cache_page_data: the cache directory and the variables after the call
cache_page_data_path(v, url) ==
    CachePath(CacheFilename(get_variable(v, "DOMAIN"), get_variable(v, "ROW"),
                            normalize_url(url)))

cache_page_data_files(v, fs, url, data) ==
    LET doc == CacheData(v, url, data)
    IN  WriteFile(fs, cache_page_data_path(v, url),
                  JsonFile([metadata |-> doc.metadata,
                            page_data |-> JsonDumpData(doc.page_data)]))

\* mutant: the save forgets to bind CACHE_FILE
cache_page_data_vars_unbound(v, url) == v

cache_page_data_vars(v, url) ==
    set_variable(v, "CACHE_FILE", cache_page_data_path(v, url))

\* mutant: _load_cached_page_data takes a file without the envelope for no cache
load_cached_page_data_no_legacy(fs, path) ==
    IF path \notin DOMAIN fs
    THEN [raised |-> FALSE, metadata |-> EmptyDict, page_data |-> EmptyDict]
    ELSE LET f == fs[path] IN
         CASE f.kind = "unreadable" ->
                [raised |-> TRUE, metadata |-> EmptyDict, page_data |-> EmptyDict]
           [] f.kind = "badjson" ->
                [raised |-> FALSE, metadata |-> EmptyDict, page_data |-> EmptyDict]
           [] OTHER ->
                IF "metadata" \in DOMAIN f.doc /\ "page_data" \in DOMAIN f.doc
                THEN [raised |-> FALSE, metadata |-> f.doc.metadata,
                      page_data |-> JsonLoadData(f.doc.page_data)]
                ELSE [raised |-> FALSE, metadata |-> EmptyDict, page_data |-> EmptyDict]

\* _load_cached_page_data
load_cached_page_data(fs, path) ==
    IF path \notin DOMAIN fs
    THEN \* FileNotFoundError, caught
         [raised |-> FALSE, metadata |-> EmptyDict, page_data |-> EmptyDict]
    ELSE LET f == fs[path] IN
         CASE f.kind = "unreadable" ->
                \* PermissionError, IsADirectoryError, UnicodeDecodeError: not caught
                [raised |-> TRUE, metadata |-> EmptyDict, page_data |-> EmptyDict]
           [] f.kind = "badjson" ->
                \* json.JSONDecodeError, caught
                [raised |-> FALSE, metadata |-> EmptyDict, page_data |-> EmptyDict]
           [] OTHER ->
                IF "metadata" \in DOMAIN f.doc /\ "page_data" \in DOMAIN f.doc
                THEN [raised |-> FALSE, metadata |-> f.doc.metadata,
                      page_data |-> JsonLoadData(f.doc.page_data)]
                ELSE [raised |-> FALSE, metadata |-> EmptyDict,
                      page_data |-> JsonLoadData(f.doc)]

(***************************************************************************)
(* commands/core.py: the cache validity checker                            *)
(***************************************************************************)
Verdict(valid, reason) == [valid |-> valid, reason |-> reason]

\* sidebar_compatible = (not current) or (current and cached)
SidebarCompatible(current_include_sidebar, cached_include_sidebar) ==
    \/ ~(current_include_sidebar # "")
    \/ (current_include_sidebar # "" /\ ScalarTruthy(cached_include_sidebar))

\* the URL rule: both present and their normalize_url forms differ
UrlMismatch(current_url, cached_url) ==
    /\ current_url # EmptyStr
    /\ cached_url # EmptyStr
    /\ normalize_url(cached_url) # normalize_url(current_url)

\* mutant: the domain rule and the row rule compare case-insensitively
FieldMismatch_nocase(current, cached) ==
    LET lower(x) == IF x = "COM" THEN "com" ELSE x
    IN  current # "" /\ cached # "" /\ lower(cached) # lower(current)

\* the domain rule and the row rule
FieldMismatch(current, cached) == current # "" /\ cached # "" /\ cached # current

\* _is_cache_valid_for_context
is_cache_valid_for_context(v, fs, cache_file) ==
    IF cache_file = EmptyStr
    THEN Verdict(FALSE, "No cache file specified")
    ELSE LET r == load_cached_page_data(fs, cache_file)
             metadata == r.metadata
         IN  IF r.raised
             THEN Verdict(FALSE, "Error validating cache")
             ELSE IF ~DictTruthy(metadata)
             THEN Verdict(FALSE, "Cache file contains no metadata")
             ELSE IF UrlMismatch(get_variable(v, "URL"), Get(metadata, "url", EmptyStr))
             THEN Verdict(FALSE, "URL mismatch")
             ELSE IF FieldMismatch(get_variable(v, "DOMAIN"), Get(metadata, "domain", ""))
             THEN Verdict(FALSE, "Domain mismatch")
             ELSE IF FieldMismatch(get_variable(v, "ROW"), Get(metadata, "row", ""))
             THEN Verdict(FALSE, "Row mismatch")
             ELSE IF ~SidebarCompatible(get_variable(v, "INCLUDE_SIDEBAR"),
                                        Get(metadata, "include_sidebar", Bool(FALSE)))
             THEN Verdict(FALSE, "Sidebar compatibility")
             ELSE Verdict(TRUE, "Cache is valid for current context")

(***************************************************************************)
(* commands/core.py: cache discovery                                       *)
(***************************************************************************)
\* _find_cache_file_for_domain_row; EmptyStr stands for None
find_cache_file_for_domain_row(fs, domain, row) ==
    IF domain = "" \/ row = ""
    THEN EmptyStr
    ELSE LET cache_file == CachePath(<<"page_check_", domain, "-", row, ".json">>)
         IN  IF cache_file \in DOMAIN fs THEN cache_file ELSE EmptyStr

\* a file of CACHE_DIR.glob("page_check_*.json") that _find_cache_file_for_url accepts
UrlMatches(fs, path, url) ==
    LET r == load_cached_page_data(fs, path)
        cached_url == Get(r.metadata, "url", EmptyStr)
    IN  /\ Len(path) >= 3
        /\ path[1] = CACHE_DIR[1]
        /\ path[2] = "page_check_"
        /\ path[Len(path)] = ".json"
        /\ ~r.raised
        /\ cached_url # EmptyStr
        /\ normalize_url(cached_url) = normalize_url(url)

\* _find_cache_file_for_url: the files it can return (glob order is not
\* specified, so any accepted file can come first); EmptyStr stands for None
find_cache_file_for_url(fs, url) ==
    IF url = EmptyStr
    THEN {EmptyStr}
    ELSE LET hits == {p \in DOMAIN fs : UrlMatches(fs, p, url)}
         IN  IF hits = {} THEN {EmptyStr} ELSE hits

\* the files the discovery of _update_cache_file_state can come up with
FoundCacheFiles(v, fs, url, domain, row) ==
    LET search_url == IF url # EmptyStr THEN url ELSE get_variable(v, "URL")
        search_domain == IF domain # "" THEN domain ELSE get_variable(v, "DOMAIN")
        search_row == IF row # "" THEN row ELSE get_variable(v, "ROW")
        by_domain_row ==
            IF search_domain # "" /\ search_row # ""
            THEN find_cache_file_for_domain_row(fs, search_domain, search_row)
            ELSE EmptyStr
    IN  IF by_domain_row = EmptyStr /\ search_url # EmptyStr
        THEN find_cache_file_for_url(fs, search_url)
        ELSE {by_domain_row}

\* the variables restored from the metadata of a cache file
RestoreMetadata(v, metadata) ==
    LET v1 == IF Get(metadata, "kanban_id", "") # ""
              THEN set_variable(v, "KANBAN_ID", metadata.kanban_id) ELSE v
        v2 == IF Get(metadata, "url", EmptyStr) # EmptyStr
              THEN set_variable(v1, "URL", metadata.url) ELSE v1
        v3 == IF Get(metadata, "domain", "") # ""
              THEN set_variable(v2, "DOMAIN", metadata.domain) ELSE v2
        v4 == IF Get(metadata, "row", "") # ""
              THEN set_variable(v3, "ROW", metadata.row) ELSE v3
        v5 == IF Get(metadata, "selector", "") # ""
              THEN set_variable(v4, "SELECTOR", metadata.selector) ELSE v4
    IN  IF Get(metadata, "include_sidebar", Null).t # "null"
        THEN set_variable(v5, "INCLUDE_SIDEBAR", StrLower(metadata.include_sidebar))
        ELSE v5

\* mutant: the unset branches clear CACHE_FILE but keep the page data
update_cache_file_state_keeps_data(v, cpd, fs, found_cache_file) ==
    LET current_cache_file == get_variable(v, "CACHE_FILE")
        unset == current_cache_file # EmptyStr /\ found_cache_file # current_cache_file
        v0 == IF unset THEN set_variable(v, "CACHE_FILE", EmptyStr) ELSE v
    IN  IF found_cache_file # EmptyStr
        THEN LET v1 == set_variable(v0, "CACHE_FILE", found_cache_file)
                 r == load_cached_page_data(fs, found_cache_file)
             IN  IF ~r.raised /\ DictTruthy(r.page_data)
                 THEN [variables |->
                          IF DictTruthy(r.metadata)
                          THEN RestoreMetadata(v1, r.metadata) ELSE v1,
                       current_page_data |-> r.page_data]
                 ELSE [variables |-> v1, current_page_data |-> cpd]
        ELSE [variables |-> v0, current_page_data |-> cpd]

\* _update_cache_file_state, for the file its discovery found:
\* the session [variables, current_page_data] after the call
update_cache_file_state(v, cpd, fs, found_cache_file) ==
    LET current_cache_file == get_variable(v, "CACHE_FILE")
        unset == current_cache_file # EmptyStr /\ found_cache_file # current_cache_file
        v0 == IF unset THEN set_variable(v, "CACHE_FILE", EmptyStr) ELSE v
        cpd0 == IF unset THEN None ELSE cpd
    IN  IF found_cache_file # EmptyStr
        THEN LET v1 == set_variable(v0, "CACHE_FILE", found_cache_file)
                 r == load_cached_page_data(fs, found_cache_file)
             IN  IF ~r.raised /\ DictTruthy(r.page_data)
                 THEN [variables |->
                          IF DictTruthy(r.metadata)
                          THEN RestoreMetadata(v1, r.metadata) ELSE v1,
                       current_page_data |-> r.page_data]
                 ELSE [variables |-> v1, current_page_data |-> cpd0]
        ELSE \* elif not found_cache_file and current_cache_file: already unset above
             [variables |-> v0, current_page_data |-> cpd0]

(***************************************************************************)
(* The DSM workbook: constants.py, dsm_utils.py                            *)
(***************************************************************************)
\* the entries of DOMAINS the model loads from
DOMAINS ==
    << [full_name |-> "COM", worksheet_name |-> "COM", worksheet_header_row |-> 3],
       [full_name |-> "CON", worksheet_name |-> "CON", worksheet_header_row |-> 3] >>

Cell(s) == [na |-> FALSE, s |-> s]
NaN == [na |-> TRUE, s |-> EmptyStr]

U1 == <<"http://", "a.edu", "/p">>
U1Slash == <<"http://", "a.edu", "/p", "/">>
U1Frag == <<"http://", "a.edu", "/p", "#s">>
U1Bare == <<"a.edu", "/p">>
U2 == <<"https://", "b.edu", "/q">>
ULong == <<"http://", "a.edu", "/p", "/seg36", "/tail">>

\* ExcelFile.parse(sheet_name, header): the data rows below the header row
Workbook(sheet_name) ==
    IF sheet_name = "COM"
    THEN [columns |-> <<"EXISTING URL", "PROPOSED URL">>,
          rows |-> << <<NaN, NaN>>,
                      <<NaN, Cell(<<"/new">>)>>,
                      <<Cell(U1), NaN>> >>]
    ELSE [columns |-> <<"Existing Url ", "PROPOSED URL">>,
          rows |-> << <<NaN, NaN>>,
                      <<NaN, NaN>>,
                      <<Cell(U1), NaN>> >>]

\* str.strip().upper() and str.lower() on the names the model uses
StripUpper(name) ==
    CASE name = "Existing Url " -> "EXISTING URL"
      [] name = "domain" -> "DOMAIN"
      [] name = "Current URLs" -> "CURRENT URLS"
      [] name = "Path" -> "PATH"
      [] OTHER -> name

Lower(name) ==
    CASE name = "COM" -> "com"
      [] name = "CON" -> "con"
      [] name = "News Content" -> "news content"
      [] OTHER -> name

\* get_column_value
get_column_value(sheet_df, excel_row, column_name) ==
    LET n == Len(sheet_df.rows)
        hits == {c \in DOMAIN sheet_df.columns :
                    StripUpper(sheet_df.columns[c]) = StripUpper(column_name)}
    IN  IF hits = {}
        THEN EmptyStr
        ELSE LET target_col == CHOOSE c \in hits : \A d \in hits : c <= d
             IN  IF excel_row >= n \/ excel_row < 0 - n
                 THEN EmptyStr      \* IndexError
                 ELSE LET row == sheet_df.rows[IF excel_row >= 0 THEN excel_row + 1
                                               ELSE n + excel_row + 1]
                      IN  IF row[target_col].na THEN EmptyStr ELSE row[target_col].s

get_existing_url(sheet_df, excel_row) == get_column_value(sheet_df, excel_row, "EXISTING URL")
get_proposed_url(sheet_df, excel_row) == get_column_value(sheet_df, excel_row, "PROPOSED URL")

\* int(row_arg) and str(row_num) on the row numbers the model uses
IsInt(row_arg) == row_arg \in {"5", "6", "7"}
ParseInt(row_arg) == CASE row_arg = "5" -> 5 [] row_arg = "6" -> 6 [] OTHER -> 7
IntStr(row_num) == CASE row_num = 5 -> "5" [] row_num = 6 -> "6" [] OTHER -> "7"

\* the workbook the session has loaded
Dsm == [sheet_name \in {"COM", "CON"} |-> Workbook(sheet_name)]

(***************************************************************************)
(* data/dsm.py, migrate_hierarchy.py: the DSM link resolver.  A cell is a  *)
(* string of tokens; " ", "," and ";" are the tokens that separate URLs.   *)
(***************************************************************************)
\* \s
IsSpace(tok) == tok = " "

\* [\s,;]
IsSeparator(tok) == tok \in {" ", ",", ";"}

\* str.strip()
RECURSIVE Strip(_)
Strip(str) ==
    IF str = EmptyStr THEN str
    ELSE IF IsSpace(Head(str)) THEN Strip(Tail(str))
    ELSE IF IsSpace(str[Len(str)]) THEN Strip(SubSeq(str, 1, Len(str) - 1))
    ELSE str

\* the end of the run of [^\s,;] tokens that starts at i
RECURSIVE RunEnd(_, _)
RunEnd(str, i) ==
    IF i < Len(str) /\ ~IsSeparator(str[i + 1]) THEN RunEnd(str, i + 1) ELSE i

\* mutant: the whole cell is the existing URL
dsm_get_existing_url_whole_cell(sheet_df, excel_row, col_name) ==
    get_column_value(sheet_df, excel_row, col_name)

\* data/dsm.py get_existing_url: the first https?://[^\s,;]+ of the cell,
\* the stripped cell when it holds none
dsm_get_existing_url(sheet_df, excel_row, col_name) ==
    LET raw_value == get_column_value(sheet_df, excel_row, col_name)
        starts == {i \in 1..(Len(raw_value) - 1) :
                      /\ LowerTok(raw_value[i]) \in Schemes
                      /\ ~IsSeparator(raw_value[i + 1])}
    IN  IF raw_value = EmptyStr THEN EmptyStr
        ELSE IF starts = {} THEN Strip(raw_value)
        ELSE LET i == CHOOSE k \in starts : \A m \in starts : k <= m
             IN  SubSeq(raw_value, i, RunEnd(raw_value, i))

dsm_get_proposed_url(sheet_df, excel_row, col_name) ==
    get_column_value(sheet_df, excel_row, col_name)

\* mutant: the pattern without its closing (?:\s|$)
ReSearch_unanchored(normalized_link, existing_url) ==
    \E i \in 1..Len(existing_url) :
        /\ i = 1 \/ IsSpace(existing_url[i - 1])
        /\ i + Len(normalized_link) - 1 <= Len(existing_url)
        /\ \A k \in 1..Len(normalized_link) :
              LowerTok(existing_url[i + k - 1]) = LowerTok(normalized_link[k])

\* re.search(rf"(?:^|\s){escaped_url}/?(?:\s|$)", existing_url, re.IGNORECASE)
ReSearch(normalized_link, existing_url) ==
    \E i \in 1..Len(existing_url) :
        /\ i = 1 \/ IsSpace(existing_url[i - 1])
        /\ i + Len(normalized_link) - 1 <= Len(existing_url)
        /\ \A k \in 1..Len(normalized_link) :
              LowerTok(existing_url[i + k - 1]) = LowerTok(normalized_link[k])
        /\ LET j == i + Len(normalized_link)
               boundary(m) == m > Len(existing_url) \/ IsSpace(existing_url[m])
           IN  boundary(j) \/ (existing_url[j] = "/" /\ boundary(j + 1))

\* migrate_hierarchy.py DOMAIN_MAPPING, the hostnames the model uses
DOMAIN_MAPPING == [hostname \in {"web.musc.edu"} |-> "Enterprise"]

\* hostname.split(".")[0]
FirstLabel(hostname) ==
    CASE hostname = "a.edu" -> "a"
      [] hostname = "b.edu" -> "b"
      [] hostname = "c.edu" -> "c"
      [] hostname = "web.musc.edu" -> "web"
      [] OTHER -> hostname

\* urlparse(url).hostname or ""
Hostname(url) ==
    IF Len(url) >= 2 /\ LowerTok(url[1]) \in Schemes /\ url[2] \notin {"/", "#s"}
    THEN LowerTok(url[2])
    ELSE ""

\* mutant: the root is always the first label of the hostname
get_sitecore_root_no_table(existing_url) == FirstLabel(Hostname(existing_url))

\* get_sitecore_root
get_sitecore_root(existing_url) ==
    LET hostname == Hostname(existing_url)
    IN  IF hostname \in DOMAIN DOMAIN_MAPPING
        THEN DOMAIN_MAPPING[hostname]
        ELSE FirstLabel(hostname)

\* str.lstrip("/")
RECURSIVE LStripSlash(_)
LStripSlash(str) ==
    IF str # EmptyStr /\ Head(str) = "/" THEN LStripSlash(Tail(str)) ELSE str

\* str.split("/"): the pieces between the "/" tokens, empty ones included
RECURSIVE SplitSlash(_)
SplitSlash(str) ==
    LET cut == {i \in DOMAIN str : str[i] = "/"}
    IN  IF cut = {} THEN <<str>>
        ELSE LET i == CHOOSE k \in cut : \A m \in cut : k <= m
             IN  <<SubSeq(str, 1, i - 1)>> \o SplitSlash(SubSeq(str, i + 1, Len(str)))

\* mutant: the split keeps its empty segments
ProposedSegments_keeps_empty(proposed_url) ==
    IF proposed_url # EmptyStr
    THEN SplitSlash(RStripSlash(LStripSlash(proposed_url)))
    ELSE << >>

\* [seg for seg in proposed_url.strip("/").split("/") if seg] if proposed_url else []
ProposedSegments(proposed_url) ==
    IF proposed_url # EmptyStr
    THEN SelectSeq(SplitSlash(RStripSlash(LStripSlash(proposed_url))),
                   LAMBDA seg : seg # EmptyStr)
    ELSE << >>

\* bonus_domains
BonusDomains ==
    << [full_name |-> "News Content", worksheet_name |-> "News Content",
        worksheet_header_row |-> 0] >>

\* mutant: only the configured domains are scanned
LookupDomains_no_bonus == DOMAINS

\* DOMAINS + bonus_domains
LookupDomains == DOMAINS \o BonusDomains

\* the columns the scan of a domain reads
ExistingUrlColName(domain) ==
    IF Lower(domain.full_name) = "news content" THEN "Current URLs"
    ELSE Get(domain, "existing_url_col_name", "EXISTING URL")

ProposedUrlColName(domain) ==
    IF Lower(domain.full_name) = "news content" THEN "Path"
    ELSE Get(domain, "proposed_url_col_name", "PROPOSED URL")

\* excel_data.parse(worksheet_name, header) raises: the workbook has no such sheet
ParseRaises(workbook, domain) ==
    Get(domain, "worksheet_name", domain.full_name) \notin DOMAIN workbook

\* the rows of a domain's worksheet that the scan accepts, as indices from 0
DomainMatches(workbook, domain, normalized_link) ==
    IF ParseRaises(workbook, domain)
    THEN {}
    ELSE LET df == workbook[Get(domain, "worksheet_name", domain.full_name)]
         IN  {idx \in 0..(Len(df.rows) - 1) :
                LET existing_url ==
                        dsm_get_existing_url(df, idx, ExistingUrlColName(domain))
                IN  existing_url # EmptyStr /\ ReSearch(normalized_link, existing_url)}

\* mutant: an exception while parsing a worksheet ends the scan
LookupScanned_aborting(workbook) ==
    LET raising == {d \in DOMAIN LookupDomains : ParseRaises(workbook, LookupDomains[d])}
    IN  {d \in DOMAIN LookupDomains : \A e \in raising : d < e}

\* the domains the scan gets to: an exception skips one domain, no more
LookupScanned(workbook) == DOMAIN LookupDomains

\* mutant: the last hit is returned
FirstHit_last(hits) == CHOOSE k \in hits : \A m \in hits : k >= m

\* the scan returns at its first hit
FirstHit(hits) == CHOOSE k \in hits : \A m \in hits : k <= m

\* lookup_link_in_dsm
lookup_link_in_dsm(link_url, workbook) ==
    IF workbook = None
    THEN [found |-> FALSE, error |-> "No DSM data loaded"]
    ELSE LET normalized_link == CompareNormalize(link_url)
             hits == {d \in LookupScanned(workbook) :
                        DomainMatches(workbook, LookupDomains[d], normalized_link) # {}}
         IN  IF hits = {}
             THEN [found |-> FALSE]
             ELSE LET d == FirstHit(hits)
                      domain == LookupDomains[d]
                      df == workbook[Get(domain, "worksheet_name", domain.full_name)]
                      rows == DomainMatches(workbook, domain, normalized_link)
                      excel_row == FirstHit(rows)
                      existing_url ==
                          dsm_get_existing_url(df, excel_row, ExistingUrlColName(domain))
                      proposed_url ==
                          dsm_get_proposed_url(df, excel_row, ProposedUrlColName(domain))
                  IN  [found |-> TRUE,
                       domain |-> domain.full_name,
                       row |-> excel_row,
                       existing_url |-> existing_url,
                       proposed_url |-> proposed_url,
                       proposed_hierarchy |->
                           [root |-> get_sitecore_root(existing_url),
                            segments |-> ProposedSegments(proposed_url)]]

(***************************************************************************)
(* The page scraper: what retrieve_page_data can hand to cmd_check         *)
(***************************************************************************)
PageA == [links |-> <<Tuple(<<"Home", "http://a.edu/", "200">>)>>, meta_description |-> "A"]
PageB == [links |-> << >>, meta_description |-> "B"]
PageError == [links |-> << >>, meta_description |-> "", error |-> "boom"]
Raised == [raised |-> TRUE]

ScrapeResults == {PageA, PageError, Raised}

(***************************************************************************)
(* ui/spinner.py: the Spinner, the thread that calls it and the thread it  *)
(* starts                                                                  *)
(***************************************************************************)
spinner_chars == <<"|", "/", "-", "\\">>

\* no cmd_check is scraping: there is no Spinner
NoSpinner ==
    [main |-> "idle",       \* where cmd_check stands
     running |-> FALSE,     \* Spinner.running
     thread |-> "none",     \* Spinner._thread: none, created, started
     spin |-> "none",       \* where _spin stands in its thread
     idx |-> 0,             \* idx % len(spinner_chars)
     data |-> None]         \* what retrieve_page_data handed back

(***************************************************************************)
(* Bookkeeping                                                             *)
(***************************************************************************)
Context(v) == <<v["URL"], v["DOMAIN"], v["ROW"], v["INCLUDE_SIDEBAR"]>>

\* what the command that runs next sees on entry
Snapshot ==
    [cache_file |-> variables["CACHE_FILE"],
     has_data |-> DictTruthy(current_page_data),
     valid |-> is_cache_valid_for_context(variables, files, variables["CACHE_FILE"]).valid]

\* hist.ctx: a cmd_check has scraped and saved a cache with URL, DOMAIN and ROW
\*   set, and URL, DOMAIN, ROW and INCLUDE_SIDEBAR have not changed since;
\* hist.bind: the same, and CACHE_FILE has not changed since either;
\* hist.missed_ctx, hist.missed_bind: a cmd_check that ran while hist.ctx
\*   (hist.bind) held did not serve the page data the session holds.
\* v2: the variables after the command; saved: it scraped and saved such a
\* cache; check: it is cmd_check; served: it served the data the session holds
HistAfter(v2, saved, check, served) ==
    [ctx |-> saved \/ (hist.ctx /\ Context(v2) = Context(variables)),
     bind |-> saved \/ (/\ hist.bind
                         /\ Context(v2) = Context(variables)
                         /\ v2["CACHE_FILE"] = variables["CACHE_FILE"]),
     missed_ctx |-> hist.missed_ctx \/ (hist.ctx /\ check /\ ~served),
     missed_bind |-> hist.missed_bind \/ (hist.bind /\ check /\ ~served)]

Ran(cmd, args, outcome, found, data) ==
    [cmd |-> cmd, args |-> args, outcome |-> outcome, found |-> found,
     data |-> data, pre |-> Snapshot]

\* the cache file an earlier session left behind: cmd_check for COM row 7
EarlierSession ==
    LET v == [InitVariables EXCEPT !["URL"] = U1, !["DOMAIN"] = "COM", !["ROW"] = "7"]
    IN  cache_page_data_files(v, [p \in {} |-> None], U1, PageA)

Init ==
    /\ variables = InitVariables
    /\ current_page_data = None
    /\ files \in {[p \in {} |-> None], EarlierSession}
    /\ hist = [ctx |-> FALSE, bind |-> FALSE, missed_ctx |-> FALSE, missed_bind |-> FALSE]
    /\ scrapes = 0
    /\ excel_data = Dsm
    /\ spinner = NoSpinner
    /\ last = [cmd |-> "init", args |-> EmptyStr, outcome |-> "", found |-> EmptyStr,
               data |-> None,
               pre |-> [cache_file |-> EmptyStr, has_data |-> FALSE, valid |-> FALSE]]

(***************************************************************************)
(* commands/core.py: cmd_set                                               *)
(***************************************************************************)
\* the variables whose values are URLs or paths
TokenValued == {"URL", "CACHE_FILE", "PROPOSED_PATH"}

BogusPath == <<"bogus.json">>

\* the argument lists the model types after "set"
SetArgs ==
    {<<"URL">> \o u : u \in {U1, U2}}
    \cup {<<"domain", "COM">>, <<"DOMAIN", "CON">>, <<"ROW", "7">>}
    \cup {<<"CACHE_FILE">> \o BogusPath}

SetName(args) == StripUpper(args[1])
SetValue(args) ==
    IF SetName(args) \in TokenValued THEN SubSeq(args, 2, Len(args)) ELSE args[2]

\* the files cache discovery can find for "set args"
SetFound(v, fs, args) ==
    IF Len(args) < 2 \/ ~set_variable_ok(v, SetName(args))
    THEN {EmptyStr}
    ELSE LET v1 == set_variable(v, SetName(args), SetValue(args))
         IN  CASE SetName(args) = "URL" ->
                    FoundCacheFiles(v1, fs, SetValue(args), "", "")
               [] SetName(args) \in {"DOMAIN", "ROW"} ->
                    FoundCacheFiles(v1, fs, EmptyStr, "", "")
               [] OTHER -> {EmptyStr}

\* the session after "set args", cache discovery having found found_cache_file
SetResult(v, cpd, fs, args, found_cache_file) ==
    IF Len(args) < 2 \/ ~set_variable_ok(v, SetName(args))
    THEN [variables |-> v, current_page_data |-> cpd]
    ELSE LET v1 == set_variable(v, SetName(args), SetValue(args))
         IN  IF SetName(args) \in {"URL", "DOMAIN", "ROW"}
             THEN update_cache_file_state(v1, cpd, fs, found_cache_file)
             ELSE [variables |-> v1, current_page_data |-> cpd]

\* "set args"
SetStep(args) ==
    \E found_cache_file \in SetFound(variables, files, args) :
        LET after == SetResult(variables, current_page_data, files, args, found_cache_file)
            outcome == IF Len(args) < 2 THEN "help"
                       ELSE IF set_variable_ok(variables, SetName(args)) THEN "ok"
                       ELSE "unknown"
        IN  /\ variables' = after.variables
            /\ current_page_data' = after.current_page_data
            /\ hist' = HistAfter(after.variables, FALSE, FALSE, FALSE)
            /\ last' = Ran("set", args, outcome, found_cache_file, None)
            /\ UNCHANGED <<files, scrapes, excel_data, spinner>>

cmd_set == \E args \in SetArgs : SetStep(args)

(***************************************************************************)
(* commands/sidebar.py: cmd_sidebar                                        *)
(***************************************************************************)
SidebarArgs == {EmptyStr, <<"on">>}

\* the value cmd_sidebar stores; "" when it only prints the help
SidebarValue(current_value, args) ==
    IF args = EmptyStr
    THEN (IF ~(current_value # "") THEN "true" ELSE "false")
    ELSE IF args[1] \in {"on", "true", "1", "yes"} THEN "true"
    ELSE IF args[1] \in {"off", "false", "0", "no"} THEN "false"
    ELSE ""

cmd_sidebar ==
    \E args \in SidebarArgs :
        LET new_value == SidebarValue(get_variable(variables, "INCLUDE_SIDEBAR"), args)
            v1 == IF new_value = "" THEN variables
                  ELSE set_variable(variables, "INCLUDE_SIDEBAR", new_value)
        IN  /\ variables' = v1
            /\ hist' = HistAfter(v1, FALSE, FALSE, FALSE)
            /\ last' = Ran("sidebar", args, IF new_value = "" THEN "help" ELSE "ok",
                           EmptyStr, None)
            /\ UNCHANGED <<current_page_data, files, scrapes, excel_data, spinner>>

(***************************************************************************)
(* commands/load.py: cmd_load                                              *)
(***************************************************************************)
LoadArgs ==
    {<<"COM", "7">>, <<"con", "7">>, <<"COM", "6">>}

\* next(d for d in DOMAINS if d["full_name"].lower() == user_domain.lower())
FindDomain(user_domain) ==
    LET hits == {i \in DOMAIN DOMAINS : Lower(DOMAINS[i].full_name) = Lower(user_domain)}
    IN  IF hits = {} THEN 0 ELSE CHOOSE i \in hits : \A j \in hits : i <= j

\* the URL cmd_load reads for args, EmptyStr when it reads none
LoadUrl(args) ==
    LET i == FindDomain(args[1])
    IN  IF i = 0 \/ ~IsInt(args[2]) THEN EmptyStr
        ELSE get_existing_url(Workbook(DOMAINS[i].full_name),
                              ParseInt(args[2]) - (DOMAINS[i].worksheet_header_row + 2))

\* the variables cmd_load sets before it runs cache discovery
LoadVariables(v, args) ==
    LET domain == DOMAINS[FindDomain(args[1])]
        df == Workbook(domain.full_name)
        idx == ParseInt(args[2]) - (domain.worksheet_header_row + 2)
        v1 == set_variable(v, "URL", get_existing_url(df, idx))
        v2 == set_variable(v1, "PROPOSED_PATH", get_proposed_url(df, idx))
        v3 == set_variable(v2, "DOMAIN", domain.full_name)
    IN  set_variable(v3, "ROW", IntStr(ParseInt(args[2])))

LoadFound(v, fs, args) ==
    IF LoadUrl(args) = EmptyStr
    THEN {EmptyStr}
    ELSE LET v1 == LoadVariables(v, args)
         IN  FoundCacheFiles(v1, fs, v1["URL"], v1["DOMAIN"], v1["ROW"])

cmd_load ==
    \E args \in LoadArgs :
    \E found_cache_file \in LoadFound(variables, files, args) :
        LET loaded == LoadUrl(args) # EmptyStr
            after == IF loaded
                     THEN update_cache_file_state(LoadVariables(variables, args),
                                                  current_page_data, files, found_cache_file)
                     ELSE [variables |-> variables, current_page_data |-> current_page_data]
        IN  /\ variables' = after.variables
            /\ current_page_data' = after.current_page_data
            /\ hist' = HistAfter(after.variables, FALSE, FALSE, FALSE)
            /\ last' = Ran("load", args, IF loaded THEN "ok" ELSE "failed",
                           found_cache_file, None)
            /\ UNCHANGED <<files, scrapes, excel_data, spinner>>

(***************************************************************************)
(* commands/core.py: cmd_check                                             *)
(***************************************************************************)
\* cmd_check reuses the page data it holds
UsesCache(v, cpd, fs) ==
    /\ DictTruthy(cpd)
    /\ is_cache_valid_for_context(v, fs, get_variable(v, "CACHE_FILE")).valid

\* the names with a "/" in them
HasSlash(name) == name \in {"a/b"}

\* open(cache_file, "w") raises: page_check_{domain}-{row}.json names a file in
\* a directory that is not there
SaveRaises(v) ==
    /\ get_variable(v, "DOMAIN") # "" /\ get_variable(v, "ROW") # ""
    /\ HasSlash(get_variable(v, "DOMAIN")) \/ HasSlash(get_variable(v, "ROW"))

\* mutant: cmd_check caches the scraped data but keeps serving the old page data
CheckScraped_keeps_data(v, fs, data) ==
    [variables |-> cache_page_data_vars(v, get_variable(v, "URL")),
     current_page_data |-> current_page_data,
     files |-> cache_page_data_files(v, fs, get_variable(v, "URL"), data)]

\* cmd_check, the scraper handing back data: [variables, current_page_data, files];
\* state.current_page_data is assigned before _cache_page_data opens the file
CheckScraped(v, fs, data) ==
    IF SaveRaises(v)
    THEN [variables |-> v, current_page_data |-> data, files |-> fs]
    ELSE [variables |-> cache_page_data_vars(v, get_variable(v, "URL")),
          current_page_data |-> data,
          files |-> cache_page_data_files(v, fs, get_variable(v, "URL"), data)]

cmd_check_rejected ==
    /\ ~RequiredVarsOk(variables)
    /\ hist' = HistAfter(variables, FALSE, TRUE, FALSE)
    /\ last' = Ran("check", EmptyStr, "rejected", EmptyStr, None)
    /\ UNCHANGED <<variables, current_page_data, files, scrapes, excel_data, spinner>>

cmd_check_cached ==
    /\ RequiredVarsOk(variables)
    /\ UsesCache(variables, current_page_data, files)
    /\ hist' = HistAfter(variables, FALSE, TRUE, TRUE)
    /\ last' = Ran("check", EmptyStr, "cached", EmptyStr, None)
    /\ UNCHANGED <<variables, current_page_data, files, scrapes, excel_data, spinner>>

cmd_check_scrape ==
    /\ RequiredVarsOk(variables)
    /\ ~UsesCache(variables, current_page_data, files)
    /\ scrapes < MaxScrapes
    /\ scrapes' = scrapes + 1
    /\ UNCHANGED <<excel_data, spinner>>
    /\ \E result \in ScrapeResults :
        IF result = Raised
        THEN /\ hist' = HistAfter(variables, FALSE, TRUE, FALSE)
             /\ last' = Ran("check", EmptyStr, "raised", EmptyStr, None)
             /\ UNCHANGED <<variables, current_page_data, files>>
        ELSE LET after == CheckScraped(variables, files, result)
             IN  /\ variables' = after.variables
                 /\ current_page_data' = after.current_page_data
                 /\ files' = after.files
                 /\ hist' = HistAfter(after.variables,
                                      /\ variables["DOMAIN"] # "" /\ variables["ROW"] # ""
                                      /\ ~SaveRaises(variables),
                                      TRUE, FALSE)
                 /\ last' = Ran("check", EmptyStr,
                                IF SaveRaises(variables) THEN "save_raised"
                                ELSE IF "error" \in DOMAIN result THEN "error" ELSE "ok",
                                EmptyStr, result)

cmd_check == cmd_check_rejected \/ cmd_check_cached \/ cmd_check_scrape

Next == cmd_set \/ cmd_sidebar \/ cmd_load \/ cmd_check

Spec == Init /\ [][Next]_vars

(***************************************************************************)
(* The session with the values cmd_set takes unguarded: a DOMAIN that is   *)
(* no file name, and a CACHE_FILE that names a cache file of the directory *)
(***************************************************************************)
\* the cache directory after an earlier session checked U1 twice, first with
\* no DOMAIN and ROW and then as row 7 of COM
EarlierChecks ==
    LET v1 == [InitVariables EXCEPT !["URL"] = U1]
        v2 == [v1 EXCEPT !["DOMAIN"] = "COM", !["ROW"] = "7"]
    IN  cache_page_data_files(v2,
            cache_page_data_files(v1, [p \in {} |-> None], U1, PageA), U1, PageB)

WideSetArgs ==
    {<<"URL">> \o u : u \in {U1, U2}}
    \cup {<<"DOMAIN", "a/b">>, <<"DOMAIN", "COM">>, <<"ROW", "7">>}
    \cup {<<"CACHE_FILE">> \o CachePath(CacheFilename("", "", U1)),
          <<"CACHE_FILE">> \o CachePath(CacheFilename("COM", "7", U1))}

WideInit ==
    /\ variables = InitVariables
    /\ current_page_data = None
    /\ files \in {[p \in {} |-> None], EarlierChecks}
    /\ hist = [ctx |-> FALSE, bind |-> FALSE, missed_ctx |-> FALSE, missed_bind |-> FALSE]
    /\ scrapes = 0
    /\ excel_data = Dsm
    /\ spinner = NoSpinner
    /\ last = [cmd |-> "init", args |-> EmptyStr, outcome |-> "", found |-> EmptyStr,
               data |-> None,
               pre |-> [cache_file |-> EmptyStr, has_data |-> FALSE, valid |-> FALSE]]

cmd_set_wide == \E args \in WideSetArgs : SetStep(args)

WideNext == cmd_set_wide \/ cmd_check

WideSpec == WideInit /\ [][WideNext]_vars

(***************************************************************************)
(* The cache functions on their own: any session context against any cache *)
(* file a cache directory can hold, whoever wrote it                       *)
(***************************************************************************)
ProbeUrls == {EmptyStr, U1, U1Slash, U1Frag, U1Bare, U2}
ProbeDomains == {"", "COM", "com", "CON"}
ProbeRows == {"", "5", "7"}
ProbeSelectors == {"#main", ".content"}
ProbeSidebars == {"true", "false"}
ProbePages == {PageA, PageB, PageError}

ProbePath == CachePath(<<"page_check_", "COM", "-", "7", ".json">>)

\* the metadata a cache file can carry: a writer of any version
ProbeMetadata ==
    {[url |-> u, domain |-> d, row |-> r, include_sidebar |-> sb] :
        u \in ProbeUrls, d \in ProbeDomains, r \in ProbeRows,
        sb \in {Str("true"), Str("false"), Bool(TRUE), Bool(FALSE)}}
    \cup {[url |-> u, domain |-> d, row |-> r] :
        u \in ProbeUrls \ {U1Frag, U1Bare}, d \in {"COM", "CON"}, r \in {"5", "7"}}

\* what can be at ProbePath: an unreadable entry, text that is not JSON, a
\* legacy file (the page data alone), an envelope with or without metadata
ProbeContents ==
    {[kind |-> "unreadable"], [kind |-> "badjson"], JsonFile(JsonDumpData(PageA)),
     JsonFile([metadata |-> EmptyDict, page_data |-> JsonDumpData(PageA)]),
     JsonFile([metadata |-> [url |-> U1, domain |-> "COM", row |-> "7"]]),
     JsonFile([page_data |-> JsonDumpData(PageA)])}
    \cup {JsonFile([metadata |-> m, page_data |-> JsonDumpData(PageA)]) : m \in ProbeMetadata}

ProbeResult(cmd, cache_file, verdict, found, data, loaded) ==
    [cmd |-> cmd, cache_file |-> cache_file, verdict |-> verdict, found |-> found,
     data |-> data, loaded |-> loaded]

NoVerdict == Verdict(FALSE, "")
NotLoaded == [raised |-> FALSE, metadata |-> EmptyDict, page_data |-> EmptyDict]

ProbeInit ==
    /\ \E u \in ProbeUrls \cup {ULong}, d \in ProbeDomains, r \in ProbeRows,
          sel \in ProbeSelectors, sb \in ProbeSidebars :
          variables = [InitVariables EXCEPT !["URL"] = u, !["DOMAIN"] = d, !["ROW"] = r,
                                            !["SELECTOR"] = sel,
                                            !["INCLUDE_SIDEBAR"] = sb]
    /\ current_page_data = None
    /\ \/ files = [p \in {} |-> None]
       \/ \E c \in ProbeContents : files = [p \in {ProbePath} |-> c]
    /\ hist = [ctx |-> FALSE, bind |-> FALSE, missed_ctx |-> FALSE, missed_bind |-> FALSE]
    /\ scrapes = 0
    /\ excel_data = Dsm
    /\ spinner = NoSpinner
    /\ last = ProbeResult("init", EmptyStr, NoVerdict, EmptyStr, None, NotLoaded)

\* _is_cache_valid_for_context(state, cache_file)
probe_validate ==
    /\ last.cmd = "init"
    /\ \E cache_file \in {EmptyStr, ProbePath} :
          last' = ProbeResult("validate", cache_file,
                              is_cache_valid_for_context(variables, files, cache_file),
                              EmptyStr, None, NotLoaded)
    /\ UNCHANGED <<variables, current_page_data, files, hist, scrapes, excel_data, spinner>>

\* _find_cache_file_for_url(state's URL)
probe_find ==
    /\ last.cmd = "init"
    /\ \E found \in find_cache_file_for_url(files, get_variable(variables, "URL")) :
          last' = ProbeResult("find", EmptyStr, NoVerdict, found, None, NotLoaded)
    /\ UNCHANGED <<variables, current_page_data, files, hist, scrapes, excel_data, spinner>>

\* _cache_page_data(state, state's URL, data), then _load_cached_page_data
\* of the file it wrote
probe_save_load ==
    /\ last.cmd = "init"
    /\ \E data \in ProbePages :
          LET url == get_variable(variables, "URL")
              fs2 == cache_page_data_files(variables, files, url, data)
              v2 == cache_page_data_vars(variables, url)
          IN  /\ files' = fs2
              /\ variables' = v2
              /\ last' = ProbeResult("save_load", get_variable(v2, "CACHE_FILE"),
                                     NoVerdict, EmptyStr, data,
                                     load_cached_page_data(fs2, get_variable(v2, "CACHE_FILE")))
    /\ UNCHANGED <<current_page_data, hist, scrapes, excel_data, spinner>>

\* _load_cached_page_data(cache_file_path)
probe_load ==
    /\ last.cmd = "init"
    /\ last' = ProbeResult("load", ProbePath, NoVerdict, EmptyStr, None,
                           load_cached_page_data(files, ProbePath))
    /\ UNCHANGED <<variables, current_page_data, files, hist, scrapes, excel_data, spinner>>

ProbeNext == probe_validate \/ probe_find \/ probe_save_load \/ probe_load

ProbeSpec == ProbeInit /\ [][ProbeNext]_vars

(***************************************************************************)
(* The link resolver on arbitrary workbooks: any small workbook is loaded, *)
(* and one URL is looked up in it.                                         *)
(***************************************************************************)
\* the most data rows the first worksheet holds
MaxRows == 2

UWeb == <<"http://", "web.musc.edu", "/about">>
U3 == <<"http://", "c.edu", "/x">>
U1SlashFrag == <<"http://", "a.edu", "/p", "/", "#s">>
U1Upper == <<"HTTP://", "A.EDU", "/p">>
U1Longer == <<"http://", "a.edu", "/p", "-bar">>

NewAboutUs == <<"/", "new", "/", "about-us">>
NewDoubled == <<"/", "new", "/", "/", "about-us", "/">>

\* the rows a worksheet can hold: existing-URL cell, proposed-URL cell
LookupRows ==
    { <<NaN, NaN>>,
      <<Cell(U1), Cell(NewAboutUs)>>,
      <<Cell(U1Slash), Cell(NewDoubled)>>,
      <<Cell(U1Longer), Cell(NewAboutUs)>>,
      <<Cell(U2 \o <<" ">> \o U1), Cell(NewAboutUs)>>,
      <<Cell(U1Upper), NaN>>,
      <<Cell(UWeb), Cell(NewAboutUs)>> }

\* the rows the later worksheets can hold
LaterRows == { <<NaN, NaN>>, <<Cell(U1), Cell(NewAboutUs)>>, <<Cell(UWeb), NaN>> }

LookupUrls == {U1, U1Slash, U1Frag, U1SlashFrag, U1Bare, U1Upper, U2, UWeb, U3}

RowLists(rows, n) == UNION {[1..k -> rows] : k \in 0..n}

Sheet(columns, rows) == [columns |-> columns, rows |-> rows]

\* a workbook of the worksheets that are there; None stands for a missing one
BuildWorkbook(com, con, news) ==
    LET all == [name \in {"COM", "CON", "News Content"} |->
                   CASE name = "COM" -> com
                     [] name = "CON" -> con
                     [] OTHER -> news]
    IN  [name \in {n \in DOMAIN all : all[n] # None} |-> all[name]]

\* the workbooks: every worksheet is there or missing
LookupWorkbooks ==
    {BuildWorkbook(com, con, news) :
        com \in {Sheet(<<"EXISTING URL", "PROPOSED URL">>, r) : r \in RowLists(LookupRows, MaxRows)}
                \cup {None},
        con \in {Sheet(<<"Existing Url ", "PROPOSED URL">>, r) : r \in RowLists(LaterRows, 1)}
                \cup {None},
        news \in {Sheet(<<"Current URLs", "Path">>, r) : r \in RowLists(LaterRows, 1)}
                \cup {None}}

LookupResult(cmd, link_url, result) == [cmd |-> cmd, link_url |-> link_url, result |-> result]

LookupInit ==
    /\ variables = InitVariables
    /\ current_page_data = None
    /\ files = EmptyDict
    /\ hist = [ctx |-> FALSE, bind |-> FALSE, missed_ctx |-> FALSE, missed_bind |-> FALSE]
    /\ scrapes = 0
    /\ excel_data \in LookupWorkbooks \cup {None}
    /\ spinner = NoSpinner
    /\ \E u \in LookupUrls : last = LookupResult("init", u, [found |-> FALSE])

\* one call of lookup_link_in_dsm(link_url, excel_data)
probe_lookup ==
    /\ last.cmd = "init"
    /\ last' = LookupResult("lookup", last.link_url,
                            lookup_link_in_dsm(last.link_url, excel_data))
    /\ UNCHANGED <<variables, current_page_data, files, hist, scrapes, excel_data, spinner>>

LookupNext == probe_lookup

LookupSpec == LookupInit /\ [][LookupNext]_vars

(***************************************************************************)
(* Lookup followed by load: the row a lookup reports is typed into         *)
(* "load <domain> <row>" against the same workbook                         *)
(***************************************************************************)
\* cmd_load([user_domain, str(row_num)]) on the workbook of the session:
\* the variables and page data it leaves, loaded telling whether it set them
LoadFrom(v, data, fs, workbook, user_domain, row_num) ==
    LET i == FindDomain(user_domain)
        unloaded == [variables |-> v, current_page_data |-> data, loaded |-> FALSE]
    IN  IF i = 0 \/ DOMAINS[i].full_name \notin DOMAIN workbook
        THEN unloaded       \* domain not found, or parse raises and is caught
        ELSE LET domain == DOMAINS[i]
                 df == workbook[domain.full_name]
                 idx == row_num - (domain.worksheet_header_row + 2)
                 url == get_existing_url(df, idx)
                 v1 == set_variable(v, "URL", url)
                 v2 == set_variable(v1, "PROPOSED_PATH", get_proposed_url(df, idx))
                 v3 == set_variable(v2, "DOMAIN", domain.full_name)
                 v4 == set_variable(v3, "ROW", ToString(row_num))
             IN  IF url = EmptyStr
                 THEN unloaded
                 ELSE LET found == CHOOSE f \in FoundCacheFiles(v4, fs, url, v4["DOMAIN"],
                                                                v4["ROW"]) : TRUE
                          after == update_cache_file_state(v4, data, fs, found)
                      IN  [variables |-> after.variables,
                           current_page_data |-> after.current_page_data,
                           loaded |-> TRUE]

\* the user loads the domain and row the lookup reported
load_result ==
    /\ last.cmd = "lookup"
    /\ last.result.found
    /\ FindDomain(last.result.domain) # 0
    /\ LET after == LoadFrom(variables, current_page_data, files, excel_data,
                             last.result.domain, last.result.row)
       IN  /\ variables' = after.variables
           /\ current_page_data' = after.current_page_data
           /\ last' = LookupResult(IF after.loaded THEN "load" ELSE "load_failed",
                                   last.link_url, last.result)
    /\ UNCHANGED <<files, hist, scrapes, excel_data, spinner>>

RoundTripNext == probe_lookup \/ load_result

RoundTripSpec == LookupInit /\ [][RoundTripNext]_vars

(***************************************************************************)
(* The worksheet accessors and the compare-normalization on their own:     *)
(* any cell of any small worksheet is read, any URL string is normalized.  *)
(***************************************************************************)
U1Doubled == <<"http://", "a.edu", "/p", "/", "/">>
U1Query == <<"http://", "a.edu", "/p", "?q", "#s">>

\* the rows of the worksheet: cells with no, one and several URLs
CellRows ==
    { <<NaN, NaN>>,
      <<Cell(U1), Cell(NewAboutUs)>>,
      <<Cell(U1 \o <<" ">> \o U2), NaN>>,
      <<Cell(U2 \o <<",">> \o U1 \o <<";">> \o UWeb), Cell(NewAboutUs)>>,
      <<Cell(<<" ">> \o U1Upper \o <<" ">>), NaN>>,
      <<Cell(<<" ">> \o U1Bare), NaN>> }

CellSheets ==
    {Sheet(columns, rows) :
        columns \in {<<"EXISTING URL", "PROPOSED URL">>, <<"Existing Url ", "PROPOSED URL">>},
        rows \in RowLists(CellRows, MaxRows)}

\* the row indices and the column names the accessors are asked for
AskedRows == (0 - (MaxRows + 1))..(MaxRows + 1)
AskedColumns == {"EXISTING URL", "PROPOSED URL", "Missing"}

NormalizedUrls ==
    {U1, U1Slash, U1Frag, U1SlashFrag, U1Bare, U1Upper, U1Doubled, U1Query, U2, UWeb}

PureInit ==
    /\ variables = InitVariables
    /\ current_page_data = None
    /\ files = EmptyDict
    /\ hist = [ctx |-> FALSE, bind |-> FALSE, missed_ctx |-> FALSE, missed_bind |-> FALSE]
    /\ scrapes = 0
    /\ excel_data \in {BuildWorkbook(com, None, None) : com \in CellSheets}
    /\ spinner = NoSpinner
    /\ last = [cmd |-> "init"]

\* one call of get_column_value(df, excel_row, column_name)
probe_column_value ==
    /\ last.cmd = "init"
    /\ \E excel_row \in AskedRows, column_name \in AskedColumns :
          last' = [cmd |-> "column", excel_row |-> excel_row, column_name |-> column_name,
                   value |-> get_column_value(excel_data["COM"], excel_row, column_name)]
    /\ UNCHANGED <<variables, current_page_data, files, hist, scrapes, excel_data, spinner>>

\* one call of get_existing_url(df, excel_row)
probe_existing_url ==
    /\ last.cmd = "init"
    /\ \E excel_row \in 0..(Len(excel_data["COM"].rows) - 1) :
          last' = [cmd |-> "existing", excel_row |-> excel_row,
                   value |-> dsm_get_existing_url(excel_data["COM"], excel_row,
                                                  "EXISTING URL")]
    /\ UNCHANGED <<variables, current_page_data, files, hist, scrapes, excel_data, spinner>>

\* the compare-normalization of lookup_link_in_dsm, once and twice
probe_normalize ==
    /\ last.cmd = "init"
    /\ \E url \in NormalizedUrls :
          last' = [cmd |-> "normalize", url |-> url,
                   once |-> CompareNormalize(url),
                   twice |-> CompareNormalize(CompareNormalize(url))]
    /\ UNCHANGED <<variables, current_page_data, files, hist, scrapes, excel_data, spinner>>

PureNext == probe_column_value \/ probe_existing_url \/ probe_normalize

PureSpec == PureInit /\ [][PureNext]_vars

(***************************************************************************)
(* commands/check.py with ui/spinner.py: one cmd_check that scrapes, the   *)
(* thread that runs it and the spinner thread, a step at a time            *)
(***************************************************************************)
\* a session in which "set URL" and "sidebar" have been typed
SpinnerInit ==
    /\ \E url \in {U1, U2}, include_sidebar \in {"false", "true"} :
          variables = [InitVariables EXCEPT !["URL"] = url,
                                            !["INCLUDE_SIDEBAR"] = include_sidebar]
    /\ current_page_data = None
    /\ files = EmptyDict
    /\ hist = [ctx |-> FALSE, bind |-> FALSE, missed_ctx |-> FALSE, missed_bind |-> FALSE]
    /\ scrapes = 0
    /\ excel_data = Dsm
    /\ spinner = NoSpinner
    /\ last = [cmd |-> "init", args |-> EmptyStr, outcome |-> "", found |-> EmptyStr,
               data |-> None,
               pre |-> [cache_file |-> EmptyStr, has_data |-> FALSE, valid |-> FALSE]]

SessionVars == <<variables, current_page_data, files, last, hist, excel_data>>

\* cmd_check down to spinner = Spinner(...): the cache is not used
check_enter ==
    /\ spinner.main \in {"idle", "returned"}
    /\ RequiredVarsOk(variables)
    /\ ~UsesCache(variables, current_page_data, files)
    /\ scrapes < MaxScrapes
    /\ scrapes' = scrapes + 1
    /\ spinner' = [NoSpinner EXCEPT !.main = "start"]
    /\ UNCHANGED SessionVars

\* Spinner.start: self.running = True
start_set_running ==
    /\ spinner.main = "start"
    /\ spinner' = [spinner EXCEPT !.running = TRUE, !.main = "create"]
    /\ UNCHANGED <<SessionVars, scrapes>>

\* Spinner.start: self._thread = threading.Thread(target=self._spin)
start_create_thread ==
    /\ spinner.main = "create"
    /\ spinner' = [spinner EXCEPT !.thread = "created", !.main = "launch"]
    /\ UNCHANGED <<SessionVars, scrapes>>

\* Spinner.start: self._thread.start()
start_thread ==
    /\ spinner.main = "launch"
    /\ spinner' = [spinner EXCEPT !.thread = "started", !.spin = "message",
                                  !.main = "scrape"]
    /\ UNCHANGED <<SessionVars, scrapes>>

\* data = retrieve_page_data(...): it returns or it raises
check_scrape ==
    /\ spinner.main = "scrape"
    /\ \E result \in ScrapeResults :
          spinner' = [spinner EXCEPT !.data = result, !.main = "stop"]
    /\ UNCHANGED <<SessionVars, scrapes>>

\* finally: Spinner.stop: self.running = False
stop_clear_running ==
    /\ spinner.main = "stop"
    /\ spinner' = [spinner EXCEPT !.running = FALSE, !.main = "join"]
    /\ UNCHANGED <<SessionVars, scrapes>>

\* mutant: stop does not wait for the thread
JoinReturns_no_wait(sp) == TRUE

\* self._thread.join() returns: there is no thread, or _spin has returned
JoinReturns(sp) == sp.thread = "none" \/ sp.spin = "done"

\* Spinner.stop: if self._thread is not None: self._thread.join()
stop_join ==
    /\ spinner.main = "join"
    /\ JoinReturns(spinner)
    /\ spinner' = [spinner EXCEPT !.main = "finish"]
    /\ UNCHANGED <<SessionVars, scrapes>>

\* the rest of cmd_check, to its return
check_finish ==
    /\ spinner.main = "finish"
    /\ spinner' = [spinner EXCEPT !.main = "returned"]
    /\ UNCHANGED <<scrapes, excel_data>>
    /\ IF spinner.data = Raised
       THEN /\ hist' = HistAfter(variables, FALSE, TRUE, FALSE)
            /\ last' = Ran("check", EmptyStr, "raised", EmptyStr, None)
            /\ UNCHANGED <<variables, current_page_data, files>>
       ELSE LET after == CheckScraped(variables, files, spinner.data)
            IN  /\ variables' = after.variables
                /\ current_page_data' = after.current_page_data
                /\ files' = after.files
                /\ hist' = HistAfter(after.variables,
                                     variables["DOMAIN"] # "" /\ variables["ROW"] # "",
                                     TRUE, FALSE)
                /\ last' = Ran("check", EmptyStr,
                               IF "error" \in DOMAIN spinner.data THEN "error" ELSE "ok",
                               EmptyStr, spinner.data)

\* _spin: sys.stdout.write(self.message); sys.stdout.flush()
spin_message ==
    /\ spinner.spin = "message"
    /\ spinner' = [spinner EXCEPT !.spin = "test"]
    /\ UNCHANGED <<SessionVars, scrapes>>

\* _spin: while self.running
spin_test ==
    /\ spinner.spin = "test"
    /\ spinner' = [spinner EXCEPT !.spin = IF spinner.running THEN "char" ELSE "clear"]
    /\ UNCHANGED <<SessionVars, scrapes>>

\* _spin: write spinner_chars[idx % len(spinner_chars)], flush, sleep
spin_char ==
    /\ spinner.spin = "char"
    /\ spinner' = [spinner EXCEPT !.spin = "backspace"]
    /\ UNCHANGED <<SessionVars, scrapes>>

\* _spin: write "\b"; idx += 1
spin_backspace ==
    /\ spinner.spin = "backspace"
    /\ spinner' = [spinner EXCEPT !.spin = "test",
                                  !.idx = (spinner.idx + 1) % Len(spinner_chars)]
    /\ UNCHANGED <<SessionVars, scrapes>>

\* _spin: write " ", "\r", flush, and return
spin_clear ==
    /\ spinner.spin = "clear"
    /\ spinner' = [spinner EXCEPT !.spin = "done"]
    /\ UNCHANGED <<SessionVars, scrapes>>

MainStep ==
    \/ check_enter \/ start_set_running \/ start_create_thread \/ start_thread
    \/ check_scrape \/ stop_clear_running \/ stop_join \/ check_finish

SpinStep == spin_message \/ spin_test \/ spin_char \/ spin_backspace \/ spin_clear

SpinnerNext == MainStep \/ SpinStep

SpinnerSpec == SpinnerInit /\ [][SpinnerNext]_vars

(***************************************************************************)
(* The session's relationship to its cache                                 *)
(***************************************************************************)
CacheFile == variables["CACHE_FILE"]
IsValid == is_cache_valid_for_context(variables, files, CacheFile).valid
HasData == current_page_data # None
Unbound == CacheFile = EmptyStr /\ current_page_data = None

Com7Path == CachePath(<<"page_check_", "COM", "-", "7", ".json">>)

\* cmd_check ran on a Bound-Stale session with URL and SELECTOR valid
CheckedStale ==
    /\ last.cmd = "check"
    /\ last.outcome # "rejected"
    /\ last.pre.cache_file # EmptyStr
    /\ last.pre.has_data
    /\ ~last.pre.valid

\* set URL, set DOMAIN, set ROW or load ran cache discovery
RanDiscovery ==
    \/ last.cmd = "load" /\ last.outcome = "ok"
    \/ /\ last.cmd = "set"
       /\ last.outcome = "ok"
       /\ SetName(last.args) \in {"URL", "DOMAIN", "ROW"}

(***************************************************************************)
(* Claims about the session, checked under Spec                            *)
(***************************************************************************)
\* C1 as stated: once cmd_check has scraped and saved a cache with URL,
\* DOMAIN and ROW set, then as long as URL, DOMAIN, ROW and INCLUDE_SIDEBAR are
\* unchanged the cache named by CACHE_FILE is valid and every cmd_check has
\* served the held page data without scraping.
C1_ReuseWhileContextKept == hist.ctx => (IsValid /\ HasData /\ ~hist.missed_ctx)

\* C1 amended: the same, as long as URL, DOMAIN, ROW, INCLUDE_SIDEBAR and also
\* CACHE_FILE are unchanged.
C1_ReuseWhileBindingKept == hist.bind => (IsValid /\ HasData /\ ~hist.missed_bind)

\* a later cmd_check served the cache while the binding was kept
C1_Witness == hist.bind /\ last.cmd = "check" /\ last.outcome = "cached"

\* C2: from a session bound to a valid cache saved for COM/7, after
\* "set DOMAIN CON" the session's DOMAIN is "CON" and the cache file saved for
\* COM/7 is not valid for the session.
C2_SetDomainInvalidates ==
    (/\ last.cmd = "set"
     /\ last.args = <<"DOMAIN", "CON">>
     /\ last.pre.cache_file = Com7Path
     /\ last.pre.has_data
     /\ last.pre.valid)
    => (/\ variables["DOMAIN"] = "CON"
        /\ ~is_cache_valid_for_context(variables, files, Com7Path).valid)

C4_FailedScrapeUnbinds ==
    (CheckedStale /\ last.outcome \in {"error", "raised"}) => Unbound

C6_SidebarAsymmetry ==
    \A p \in DOMAIN files :
        LET m == files[p].doc.metadata
        IN  (/\ m.url = normalize_url(variables["URL"])
             /\ m.domain = variables["DOMAIN"]
             /\ m.row = variables["ROW"])
            => (~is_cache_valid_for_context(variables, files, p).valid
                <=> (variables["INCLUDE_SIDEBAR"] = "true"
                     /\ m.include_sidebar = Str("false")))

\* C14: after cmd_set([NAME, v]) has reported success for a known variable
\* NAME, the session variable NAME equals v.
C14_SetStoresValue ==
    (last.cmd = "set" /\ last.outcome = "ok")
    => variables[SetName(last.args)] = SetValue(last.args)

\* the data row "load domain r" addresses: r - (worksheet_header_row + 2)
LoadedRow ==
    LET domain == DOMAINS[FindDomain(last.args[1])]
    IN  excel_data[domain.full_name].rows[
            ParseInt(last.args[2]) - (domain.worksheet_header_row + 2) + 1]

\* C22: after "load domain r" the session URL and the proposed path are
\* those of the data row r - (worksheet_header_row + 2) of the domain's
\* worksheet, and ROW is r.
C22_LoadTakesAddressedRow ==
    (last.cmd = "load" /\ last.outcome = "ok")
    => /\ variables["URL"] = LoadedRow[1].s
       /\ variables["PROPOSED_PATH"] = LoadedRow[2].s
       /\ variables["ROW"] = last.args[2]

\* C25: cmd_sidebar without an argument flips INCLUDE_SIDEBAR: "false"
\* becomes "true" and "true" becomes "false".
C25_ToggleFlips ==
    [][(last'.cmd = "sidebar" /\ last'.args = EmptyStr)
       => variables'["INCLUDE_SIDEBAR"] =
              (IF variables["INCLUDE_SIDEBAR"] = "true" THEN "false" ELSE "true")]_vars

\* C28: the session never holds page data without a cache file bound:
\* current_page_data is present only if CACHE_FILE is non-empty.
C28_DataOnlyWhenBound ==
    current_page_data # None => variables["CACHE_FILE"] # EmptyStr

\* the page data json.load reads from the file CACHE_FILE names
NamedFileData ==
    load_cached_page_data(files, variables["CACHE_FILE"]).page_data

\* C29: whenever a check reuses the cached data instead of scraping, the page
\* data the session serves is the page data stored in the file CACHE_FILE
\* names (tuples of the session read as the lists of the file).
C29_ReusedDataIsNamedFile ==
    (last.cmd = "check" /\ last.outcome = "cached")
        => /\ current_page_data # None
           /\ JsonLoadData(JsonDumpData(current_page_data)) = NamedFileData

(***************************************************************************)
(* Claims about the cache functions, checked under ProbeSpec               *)
(***************************************************************************)
\* the metadata of the file at ProbePath, EmptyDict when it carries none
StoredMetadata ==
    IF ProbePath \in DOMAIN files /\ files[ProbePath].kind = "json"
       /\ "metadata" \in DOMAIN files[ProbePath].doc
       /\ "page_data" \in DOMAIN files[ProbePath].doc
    THEN files[ProbePath].doc.metadata
    ELSE EmptyDict

StoredUrl == Get(StoredMetadata, "url", EmptyStr)

\* a session URL and a stored URL, both present, to compare
UrlsToCompare == variables["URL"] # EmptyStr /\ StoredUrl # EmptyStr

\* the URL with "http://" put in front when it has neither http:// nor https://
SchemeCompleted(url) ==
    IF url # EmptyStr /\ url[1] \in {"http://", "https://"} THEN url ELSE <<"http://">> \o url

\* C7 as stated, for URLs that name their scheme: the validity checker's URL
\* rule rejects, and the URL-based finder misses, a cache file exactly when
\* the compare-normalized forms of the session URL and of the stored URL
\* (fragment dropped, trailing slash stripped) differ.
C7_CompareNormalizedIdentity ==
    (UrlsToCompare /\ HasScheme(variables["URL"]) /\ HasScheme(StoredUrl)) =>
        /\ (last.cmd = "validate" /\ last.cache_file = ProbePath)
           => (last.verdict.reason = "URL mismatch"
               <=> CompareNormalize(variables["URL"]) # CompareNormalize(StoredUrl))
        /\ last.cmd = "find"
           => (last.found = ProbePath
               <=> CompareNormalize(variables["URL"]) = CompareNormalize(StoredUrl))

\* C7 amended: the validity checker's URL rule rejects, and the URL-based
\* finder misses, a cache file exactly when the session URL and the stored
\* URL differ after "http://" is put in front of one that names no scheme;
\* a fragment or a trailing slash makes two URLs different pages.
C7_SchemeCompletedIdentity ==
    UrlsToCompare =>
        /\ (last.cmd = "validate" /\ last.cache_file = ProbePath)
           => (last.verdict.reason = "URL mismatch"
               <=> SchemeCompleted(variables["URL"]) # SchemeCompleted(StoredUrl))
        /\ last.cmd = "find"
           => (last.found = ProbePath
               <=> SchemeCompleted(variables["URL"]) = SchemeCompleted(StoredUrl))

\* the finder located a file whose stored URL is not the session's URL as written
C7_Witness ==
    /\ UrlsToCompare
    /\ last.cmd = "find"
    /\ last.found = ProbePath
    /\ variables["URL"] # StoredUrl

\* C8: when the session's DOMAIN and the cached domain are both non-empty and
\* differ as exact strings, or the session's ROW and the cached row are both
\* non-empty and differ, the validity checker returns false.
C8_DomainRowMismatchInvalid ==
    (/\ last.cmd = "validate"
     /\ last.cache_file = ProbePath
     /\ StoredMetadata # EmptyDict
     /\ \/ /\ variables["DOMAIN"] # ""
           /\ StoredMetadata.domain # ""
           /\ StoredMetadata.domain # variables["DOMAIN"]
        \/ /\ variables["ROW"] # ""
           /\ StoredMetadata.row # ""
           /\ StoredMetadata.row # variables["ROW"])
    => ~last.verdict.valid

\* session COM/5 against a cache saved for CON/5, rejected by the domain rule
C8_Witness ==
    /\ last.cmd = "validate"
    /\ last.cache_file = ProbePath
    /\ variables["DOMAIN"] = "COM"
    /\ variables["ROW"] = "5"
    /\ StoredMetadata # EmptyDict
    /\ StoredMetadata.domain = "CON"
    /\ StoredMetadata.row = "5"
    /\ last.verdict = Verdict(FALSE, "Domain mismatch")

\* C9: the validity checker returns false when no cache path is given, and
\* returns false with the reason "Cache file contains no metadata" whenever
\* the named file is missing, unreadable, unparsable, in the legacy format or
\* has empty metadata.
C9_NoMetadataReason ==
    last.cmd = "validate" =>
        /\ last.cache_file = EmptyStr => ~last.verdict.valid
        /\ (last.cache_file = ProbePath /\ StoredMetadata = EmptyDict)
           => last.verdict = Verdict(FALSE, "Cache file contains no metadata")

\* json's reading of what it wrote: every sequence comes back as a list
AsLists(data) ==
    [k \in DOMAIN data |->
        IF k = "links" THEN [i \in DOMAIN data[k] |-> List(data[k][i].v)] ELSE data[k]]

\* the context fields of the metadata
ContextFields(url, v) ==
    [url |-> url, domain |-> v["DOMAIN"], row |-> v["ROW"], selector |-> v["SELECTOR"],
     include_sidebar |-> Str(v["INCLUDE_SIDEBAR"])]

LoadedFields ==
    [k \in {"url", "domain", "row", "selector", "include_sidebar"} |->
        Get(last.loaded.metadata, k, Null)]

\* C10 as stated, for a session that has a URL: loading the file
\* _cache_page_data wrote returns page data equal to the data saved and
\* metadata whose url, domain, row, selector and include_sidebar equal the
\* session's URL, DOMAIN, ROW, SELECTOR and INCLUDE_SIDEBAR.
C10_RoundTripExact ==
    (last.cmd = "save_load" /\ variables["URL"] # EmptyStr) =>
        /\ ~last.loaded.raised
        /\ last.loaded.page_data = last.data
        /\ LoadedFields = ContextFields(variables["URL"], variables)

\* C10 amended: loading the file _cache_page_data wrote returns the data
\* saved with every tuple read back as a list, and metadata whose domain, row,
\* selector and include_sidebar equal the session's and whose url is the
\* session's URL with "http://" in front when it names no scheme.
C10_RoundTripAsJson ==
    last.cmd = "save_load" =>
        /\ ~last.loaded.raised
        /\ last.loaded.page_data = AsLists(last.data)
        /\ LoadedFields = ContextFields(SchemeCompleted(variables["URL"]), variables)

\* a page with links saved with the sidebar on and a selector of the user's
C10_Witness ==
    /\ last.cmd = "save_load"
    /\ last.data = PageA
    /\ variables["INCLUDE_SIDEBAR"] = "true"
    /\ variables["SELECTOR"] = ".content"
    /\ last.loaded.page_data # last.data

\* the file at ProbePath is missing, cannot be read, or is not JSON
ProbeFileFails ==
    ProbePath \notin DOMAIN files \/ files[ProbePath].kind \in {"unreadable", "badjson"}

\* the file at ProbePath is JSON
ProbeFileIsJson == ProbePath \in DOMAIN files /\ files[ProbePath].kind = "json"

\* the file at ProbePath is JSON with both keys of the envelope
ProbeFileHasEnvelope ==
    /\ ProbeFileIsJson
    /\ {"metadata", "page_data"} \subseteq DOMAIN files[ProbePath].doc

\* C11: _load_cached_page_data never raises: when the cache file is missing,
\* cannot be read (permission denied, a directory, invalid UTF-8) or is not
\* JSON, it returns ({}, {}).
C11_LoaderNeverRaises ==
    (last.cmd = "load" /\ ProbeFileFails) =>
        /\ ~last.loaded.raised
        /\ last.loaded.metadata = EmptyDict
        /\ last.loaded.page_data = EmptyDict

\* C12: for a JSON cache file without the "metadata"/"page_data" envelope
\* _load_cached_page_data returns ({}, the entire file content); for a file
\* with the envelope it returns (metadata, page_data).
C12_LegacyCompatible ==
    (last.cmd = "load" /\ ProbeFileIsJson) =>
        /\ ~last.loaded.raised
        /\ ~ProbeFileHasEnvelope =>
              /\ last.loaded.metadata = EmptyDict
              /\ last.loaded.page_data = JsonLoadData(files[ProbePath].doc)
        /\ ProbeFileHasEnvelope =>
              /\ last.loaded.metadata = files[ProbePath].doc.metadata
              /\ last.loaded.page_data = JsonLoadData(files[ProbePath].doc.page_data)

\* a legacy file, the page data alone, was loaded whole
C12_Witness ==
    /\ last.cmd = "load"
    /\ ProbeFileIsJson
    /\ files[ProbePath].doc = JsonDumpData(PageA)
    /\ last.loaded.metadata = EmptyDict
    /\ last.loaded.page_data = AsLists(PageA)

\* the file name the claim describes for a URL
NameFor(url) ==
    IF variables["DOMAIN"] # "" /\ variables["ROW"] # ""
    THEN <<"page_check_", variables["DOMAIN"], "-", variables["ROW"], ".json">>
    ELSE <<"page_check_">> \o Truncate(Sanitize(url), 50) \o <<".json">>

\* C13 as stated, for a session that has a URL: the file _cache_page_data
\* writes is "page_check_{DOMAIN}-{ROW}.json" when DOMAIN and ROW are both
\* non-empty, otherwise "page_check_" + the first 50 characters of the
\* session's URL with every character outside word characters, '.', '-', '_'
\* replaced by '_' + ".json", and CACHE_FILE names that file under
\* migration_cache.
C13_FilenameFromSession ==
    (last.cmd = "save_load" /\ variables["URL"] # EmptyStr) =>
        /\ variables["CACHE_FILE"] = CACHE_DIR \o NameFor(variables["URL"])
        /\ variables["CACHE_FILE"] \in DOMAIN files

\* C13 amended: the same, the fallback name being built from the URL with
\* "http://" put in front when it names no scheme.
C13_FilenameFromNormalizedUrl ==
    last.cmd = "save_load" =>
        /\ variables["CACHE_FILE"] = CACHE_DIR \o NameFor(SchemeCompleted(variables["URL"]))
        /\ variables["CACHE_FILE"] \in DOMAIN files

\* a URL longer than 50 characters saved without DOMAIN: the name is cut
C13_Witness ==
    /\ last.cmd = "save_load"
    /\ variables["URL"] = ULong
    /\ variables["DOMAIN"] = ""
    /\ variables["CACHE_FILE"] =
          CACHE_DIR \o <<"page_check_", "http___", "a.edu", "_p", "_seg36", ".json">>


(***************************************************************************)
(* Claims about the link resolver, checked under LookupSpec                *)
(***************************************************************************)
Looked == last.cmd = "lookup"

Normalized == CompareNormalize(last.link_url)

\* the worksheets in the order of the scan: the configured domains, then News Content
ScanOrder == <<"COM", "CON", "News Content">>

\* the rows the workbook holds: position of the worksheet in the scan, row index
SheetOf(d) == excel_data[ScanOrder[d]]
HasSheet(d) == excel_data # None /\ ScanOrder[d] \in DOMAIN excel_data
DataRows == {dr \in (DOMAIN ScanOrder) \X (0..MaxRows) :
                HasSheet(dr[1]) /\ dr[2] < Len(SheetOf(dr[1]).rows)}

\* the existing-URL cell of a row, as text
CellText(dr) == SheetOf(dr[1]).rows[dr[2] + 1][1].s

\* the URLs of a cell: its runs of text between whitespace, commas and semicolons
UrlTokens(cell) ==
    {SubSeq(cell, i, RunEnd(cell, i)) :
        i \in {k \in DOMAIN cell : /\ ~IsSeparator(cell[k])
                                   /\ k = 1 \/ IsSeparator(cell[k - 1])}}

\* the same text, letter case and one closing slash apart
SameToken(token, normalized) ==
    LowerStr(token) \in {LowerStr(normalized), LowerStr(normalized \o <<"/">>)}

\* the row lookup reported
MatchedRow ==
    CHOOSE dr \in DataRows : /\ ScanOrder[dr[1]] = last.result.domain
                             /\ dr[2] = last.result.row

\* C15: a row is matched only through a whole URL of its cell: the looked-up
\* URL, normalized, is one of the cell's URLs in full (a closing slash and
\* letter case apart), never a leading part of a longer one.
C15_WholeTokenOnly ==
    (Looked /\ last.result.found)
    => \E token \in UrlTokens(CellText(MatchedRow)) : SameToken(token, Normalized)

\* http://a.edu/p was looked up where a cell reads http://a.edu/p-bar, and
\* nothing was found
C15_Witness ==
    /\ Looked
    /\ last.link_url = U1
    /\ ~last.result.found
    /\ \E dr \in DataRows : CellText(dr) = U1Longer

\* a URL without one closing slash
StripOneSlash(url) ==
    IF url # EmptyStr /\ url[Len(url)] = "/" THEN SubSeq(url, 1, Len(url) - 1) ELSE url

\* u and c are one URL, a #fragment on u and a closing slash on either apart
DiffersBySlashOrFragment(u, c) == StripOneSlash(DropFragment(u)) = StripOneSlash(c)

ExistingUrlOf(dr) ==
    dsm_get_existing_url(SheetOf(dr[1]), dr[2], SheetOf(dr[1]).columns[1])

\* the row's existing URL is the looked-up URL
RowMatches(dr) == SameToken(ExistingUrlOf(dr), Normalized)

\* C17: lookup finds the URL exactly when some worksheet of the workbook, of
\* a configured domain or of News Content, has a data row whose existing URL
\* matches; otherwise it answers {found: false}, and nothing else.
C17_FoundIffSomeRowMatches ==
    Looked =>
        /\ last.result.found <=> (\E dr \in DataRows : RowMatches(dr))
        /\ (excel_data # None /\ ~last.result.found) => last.result = [found |-> FALSE]

\* the URL was found in News Content, the only worksheet that holds it
C17_Witness ==
    /\ Looked
    /\ last.result.found
    /\ last.result.domain = "News Content"
    /\ \A dr \in DataRows : RowMatches(dr) => ScanOrder[dr[1]] = "News Content"

\* C18: a worksheet that cannot be parsed does not end the scan: when a
\* later worksheet has a matching row, the lookup finds the URL there.
C18_FailureSkipsOneDomain ==
    (/\ Looked
     /\ excel_data # None
     /\ \E dr \in DataRows :
           /\ RowMatches(dr)
           /\ \E d \in DOMAIN ScanOrder : d < dr[1] /\ ~HasSheet(d))
    => /\ last.result.found
       /\ HasSheet(MatchedRow[1])
       /\ RowMatches(MatchedRow)

\* the COM worksheet is missing and the URL was found in a later worksheet
C18_Witness ==
    /\ Looked
    /\ excel_data # None
    /\ ~HasSheet(1)
    /\ last.result.found
    /\ MatchedRow[1] > 1

\* C19: of several matching rows lookup reports the one of the earliest
\* worksheet in the order of the scan, and there the one of the lowest index.
C19_FirstMatchWins ==
    (Looked /\ last.result.found)
    => \A dr \in DataRows :
          RowMatches(dr) =>
              \/ MatchedRow[1] < dr[1]
              \/ MatchedRow[1] = dr[1] /\ MatchedRow[2] <= dr[2]

\* the reported row has a matching row below it and another in a later worksheet
C19_Witness ==
    /\ Looked
    /\ last.result.found
    /\ \E dr \in DataRows :
          RowMatches(dr) /\ dr[1] = MatchedRow[1] /\ dr[2] > MatchedRow[2]
    /\ \E dr \in DataRows : RowMatches(dr) /\ dr[1] > MatchedRow[1]

\* the text of a list of segments, one after the other
RECURSIVE Flatten(_)
Flatten(segments) ==
    IF segments = << >> THEN << >> ELSE Head(segments) \o Flatten(Tail(segments))

AskedSheet == excel_data["COM"]

\* the column the accessor was asked for is one of the worksheet's
AskedColumnPresent ==
    \E c \in DOMAIN AskedSheet.columns :
        StripUpper(AskedSheet.columns[c]) = StripUpper(last.column_name)

\* C21: get_column_value gives the empty string for every row index outside
\* 0..len-1, negative ones included, and for every column the worksheet has not.
C21_OutOfRangeIsEmpty ==
    (/\ last.cmd = "column"
     /\ \/ last.excel_row \notin 0..(Len(AskedSheet.rows) - 1)
        \/ ~AskedColumnPresent)
    => last.value = EmptyStr

\* the text of the cell get_existing_url was asked for
AskedCell == AskedSheet.rows[last.excel_row + 1][1].s

\* the cell is a list of http(s) URLs, one at least
IsUrlList(cell) ==
    /\ UrlTokens(cell) # {}
    /\ \A token \in UrlTokens(cell) : Len(token) >= 2 /\ LowerTok(token[1]) \in Schemes

\* url is the first of the cell's runs of text between separators
IsFirstToken(url, cell) ==
    /\ url # EmptyStr
    /\ \A k \in DOMAIN url : ~IsSeparator(url[k])
    /\ \E i \in DOMAIN cell :
          /\ \A k \in 1..(i - 1) : IsSeparator(cell[k])
          /\ i + Len(url) - 1 <= Len(cell)
          /\ SubSeq(cell, i, i + Len(url) - 1) = url
          /\ i + Len(url) > Len(cell) \/ IsSeparator(cell[i + Len(url)])

\* C23: of a cell that lists one or more http(s) URLs, get_existing_url
\* returns the first URL, whole, and nothing of the later ones.
C23_FirstUrlOnly ==
    (last.cmd = "existing" /\ IsUrlList(AskedCell)) => IsFirstToken(last.value, AskedCell)

\* the cell "https://b.edu/q,http://a.edu/p;http://web.musc.edu/about" gave https://b.edu/q
C23_Witness ==
    /\ last.cmd = "existing"
    /\ AskedCell = U2 \o <<",">> \o U1 \o <<";">> \o UWeb
    /\ last.value = U2

\* C24: normalizing a normalized URL changes nothing, whether or not the URL
\* names a scheme.
C24_NormalizeIdempotent ==
    last.cmd = "normalize" => last.twice = last.once

(***************************************************************************)
(* More claims about the link resolver, checked under LookupSpec           *)
(***************************************************************************)
\* the runs of text of a cell between whitespace
SpaceTokens(cell) ==
    LET end(i) == CHOOSE j \in i..Len(cell) :
                      /\ \A k \in i..j : ~IsSpace(cell[k])
                      /\ j = Len(cell) \/ IsSpace(cell[j + 1])
    IN  {SubSeq(cell, i, end(i)) :
            i \in {k \in DOMAIN cell : /\ ~IsSpace(cell[k])
                                       /\ k = 1 \/ IsSpace(cell[k - 1])}}

\* C26: a URL that is one of the whitespace-delimited URLs of a cell is
\* found, at whichever position of the cell it stands.
C26_AnyPositionMatches ==
    (/\ Looked
     /\ HasScheme(last.link_url)
     /\ \E dr \in DataRows :
           \E token \in SpaceTokens(CellText(dr)) : SameToken(token, Normalized))
    => last.result.found

(***************************************************************************)
(* The claim about the spinner thread, checked under SpinnerSpec           *)
(***************************************************************************)
\* C27: when cmd_check returns, whether the scrape returned or raised, the
\* spinner thread has terminated; and no step of the spinner thread changes
\* the session or the running flag.
C27_SpinnerJoinedAtReturn ==
    /\ [](spinner.main = "returned" => spinner.thread = "started" /\ spinner.spin = "done")
    /\ [][spinner'.spin # spinner.spin
            => /\ UNCHANGED <<variables, current_page_data, files, excel_data>>
               /\ spinner'.running = spinner.running]_vars

\* cmd_check has returned after a scrape that raised, the spinner having
\* spun, and the thread is finished
C27_Witness ==
    /\ spinner.main = "returned"
    /\ spinner.data = Raised
    /\ spinner.idx = 2
    /\ spinner.spin = "done"
(***************************************************************************)
(* Claim about lookup followed by load, checked under RoundTripSpec        *)
(***************************************************************************)
\* C30: when the domain and row of a found lookup result are loaded, the
\* load addresses the row that matched: the session URL is the existing URL
\* of the result.
C30_LoadAddressesMatchedRow ==
    last.cmd \in {"load", "load_failed"}
        => variables["URL"] = last.result.existing_url

====
